---- MODULE Spec2Model ----
(***************************************************************************)
(* A model of harmnograph.py: the DistanceStop convergence detector, the   *)
(* Harmonograph.calibrate search, the HarmonographRender.generate loop,    *)
(* scale_path and the mode dispatch of run().                              *)
(*                                                                         *)
(* Numbers.  The program computes in double-precision floats.  The model  *)
(* computes in exact integer/rational arithmetic: positions are points of *)
(* a grid on which every Euclidean distance is an integer, a quotient a/b *)
(* is kept as the pair of its numerator and denominator, and time is      *)
(* counted in units of pi/PiUnits so that every pi/ts is an integer.      *)
(* Floating-point rounding is not modelled.                                *)
(*                                                                         *)
(* The curve.  Pendulum.__call__ uses sin and exp; the model treats the   *)
(* curve Harmonograph.__call__ as an unknown function of time whose value *)
(* at a time is chosen from Points the first time that time is evaluated  *)
(* and is remembered in `curve` afterwards.                                *)
(***************************************************************************)
EXTENDS Integers, Sequences, FiniteSets, TLC

\* ------------------------------------------------------------- bounds
MaxSteps == 2      \* largest window size `steps` drawn
MaxCalls == 4      \* DistanceStop.test calls per detector in SpecDS
MaxTs == 3         \* cap on the calibrate counter ts
MaxPoints == 3     \* cap on the points generate yields
MaxPath == 3       \* longest raw path given to scale_path in SpecScale

\* Python's None, for values that are otherwise tuples: the empty tuple.
None == <<>>

\* The positions the curve may take: a 3-4-5 triangle, so that every
\* distance between two positions is an integer (0, 3, 4 or 5).
Points == {<<0, 0>>, <<3, 0>>, <<3, 4>>}

\* The thresholds drawn (floats in the program).
Thresholds == {0, 1, 4}

Min(a, b) == IF a < b THEN a ELSE b
Max(a, b) == IF a > b THEN a ELSE b

RECURSIVE Sum(_)
Sum(s) == IF s = <<>> THEN 0 ELSE Head(s) + Sum(Tail(s))

\* math.sqrt on the perfect squares the grid produces.
Sqrt(n) == CHOOSE r \in 0..n : r * r = n

euclidean_distance(xy1, xy2) ==
    Sqrt((xy1[1] - xy2[1]) * (xy1[1] - xy2[1]) + (xy1[2] - xy2[2]) * (xy1[2] - xy2[2]))

\* Python's truth value of None or a tuple: None and () are false.
Truthy(v) == v # None

\* Python's s[:n]: the first n items, or all but the last -n when n < 0.
SliceTo(s, n) ==
    IF n >= 0 THEN SubSeq(s, 1, Min(n, Len(s)))
    ELSE SubSeq(s, 1, Max(Len(s) + n, 0))

\* ------------------------------------------------------- DistanceStop
DistanceStop(steps, threshold) ==
    [steps |-> steps, threshold |-> threshold, values |-> <<>>, last_pos |-> None]

\* Variant of Record: the list is never truncated.
Record_NoTruncate(self, pos) ==
    IF Truthy(self.last_pos)
    THEN <<euclidean_distance(self.last_pos, pos)>> \o self.values
    ELSE self.values

\* values.insert(0, distance); values = values[:steps]   (only with a last_pos)
Record(self, pos) ==
    IF Truthy(self.last_pos)
    THEN SliceTo(<<euclidean_distance(self.last_pos, pos)>> \o self.values, self.steps)
    ELSE self.values

\* Variant of AvgBelow: avg <= threshold.
AvgBelow_Le(values, threshold) == Sum(values) <= threshold * Len(values)

\* avg = sum(values) / float(len(values)); avg < threshold      (len > 0)
AvgBelow(values, threshold) == Sum(values) < threshold * Len(values)

\* Variant of test: it does not wait for `steps` distances.
test_NoWait(self, pos) ==
    LET vals == Record(self, pos)
        after == [self EXCEPT !.values = vals, !.last_pos = pos]
    IN  IF Len(vals) = 0
        THEN [self |-> after, raised |-> FALSE, ret |-> FALSE]
        ELSE [self |-> after, raised |-> FALSE, ret |-> AvgBelow(vals, self.threshold)]

\* DistanceStop.test: the detector afterwards, whether the call raised
\* (ZeroDivisionError on an empty window) and the value returned.
test(self, pos) ==
    LET vals == Record(self, pos)
        after == [self EXCEPT !.values = vals, !.last_pos = pos]
    IN  IF Len(vals) < self.steps
        THEN [self |-> after, raised |-> FALSE, ret |-> FALSE]
        ELSE IF Len(vals) = 0
        THEN [self |-> after, raised |-> TRUE, ret |-> FALSE]
        ELSE [self |-> after, raised |-> FALSE, ret |-> AvgBelow(vals, self.threshold)]

\* ---------------------------------------------------------------- time
RECURSIVE GCD(_, _)
GCD(a, b) == IF b = 0 THEN a ELSE GCD(b, a % b)

RECURSIVE LCMUpTo(_)
LCMUpTo(n) == IF n <= 1 THEN 1 ELSE LET l == LCMUpTo(n - 1) IN (l * n) \div GCD(l, n)

\* Time is counted in units of pi/PiUnits: pi/ts is a whole number of units
\* for every ts the calibrate counter can take.
PiUnits == LCMUpTo(MaxTs)

\* math.pi / ts
PiOver(ts) == PiUnits \div ts

\* -------------------------------------------------------- Harmonograph
\* Harmonograph.__call__(timestamp) returning p: the value of the curve at
\* that time, the same on every evaluation.
Evaluates(crv, timestamp, p) ==
    timestamp \in DOMAIN crv => p = crv[timestamp]

Remember(crv, timestamp, p) == (timestamp :> p) @@ crv

\* Variant of CloseEnough: distance <= threshold.
CloseEnough_Le(pos, nextpos, threshold) ==
    euclidean_distance(pos, nextpos) <= threshold

\* calibrate: `if distance < threshold`
CloseEnough(pos, nextpos, threshold) ==
    euclidean_distance(pos, nextpos) < threshold

\* Variant of KeepSearching: an iteration cap.
KeepSearching_Capped(ts) == ts < 2

\* calibrate: `while True`
KeepSearching(ts) == TRUE

\* calibrate: `return math.pi / ts`
Calibrated(ts) == PiOver(ts)

\* ------------------------------------------------- HarmonographRender
\* generate: the argument it passes to calibrate
CalibrateArg(a) == a.resolution

\* generate: ts = resolution * step + self.args["tsmin"]
Timestamp(res, step, a) == res * step + a.tsmin

\* Variant of Before: ts <= tsmax.
Before_Le(t, tsmax) == t <= tsmax[1]

\* generate: running = ts < self.args["tsmax"]
Before(t, tsmax) == t < tsmax[1]

\* Variant of NotConverged: the answer of test is ignored.
NotConverged_Ignore(ret) == TRUE

\* generate: running = not dstep.test(pos)
NotConverged(ret) == ~ret

\* run: the modes it knows
KnownMode(mode) == mode \in {"silhouette", "pygame", "svg"}

\* The quotient n/d of two floats, d # 0, as a fraction with d > 0.
Frac(n, d) == IF d > 0 THEN [n |-> n, d |-> d] ELSE [n |-> -n, d |-> -d]

FracAdd(p, q) == Frac(p.n * q.d + q.n * p.d, p.d * q.d)

FracMul(k, p) == Frac(k * p.n, p.d)

\* Variant of PyInt: rounding down.
PyInt_Floor(f) == f.n \div f.d

\* int(f) of a float: rounding toward zero.
PyInt(f) == IF f.n >= 0 THEN f.n \div f.d ELSE -((-f.n) \div f.d)

RECURSIVE SeqMin(_)
SeqMin(s) == IF Len(s) = 1 THEN s[1] ELSE Min(Head(s), SeqMin(Tail(s)))

RECURSIVE SeqMax(_)
SeqMax(s) == IF Len(s) = 1 THEN s[1] ELSE Max(Head(s), SeqMax(Tail(s)))

\* dimensions: width and height converted to the default unit, as integers
\* (args carries them already converted).
dimensions(a) == <<a.width, a.height>>

\* center: the configured center, or int(dx / 2.0), int(dy / 2.0)
center(a) ==
    IF a.center_x = None \/ a.center_y = None
    THEN <<PyInt(Frac(a.width, 2)), PyInt(Frac(a.height, 2))>>
    ELSE <<a.center_x[1], a.center_y[1]>>

\* scale_path: one axis.  list |-> the scaled coordinates; raised when
\* max = min (float division by zero).
ScaleAxis(list, d, c) ==
    LET lo == SeqMin(list)
        hi == SeqMax(list)
    IN  IF hi = lo
        THEN [raised |-> TRUE, list |-> <<>>]
        ELSE LET scale == Frac(d, hi - lo)
                 offset == FracAdd(Frac(c, 1), Frac(-d, 2))
             IN  [raised |-> FALSE,
                  list |-> [i \in 1..Len(list) |->
                              PyInt(FracAdd(FracMul(list[i] - lo, scale), offset))]]

\* scale_path(path): raised (ZeroDivisionError) or the scaled path.
scale_path(raw, a) ==
    LET d == dimensions(a)
        c == center(a)
        xs == ScaleAxis([i \in 1..Len(raw) |-> raw[i][1]], d[1], c[1])
        ys == ScaleAxis([i \in 1..Len(raw) |-> raw[i][2]], d[2], c[2])
    IN  IF xs.raised \/ ys.raised
        THEN [raised |-> TRUE, ret |-> <<>>]
        ELSE [raised |-> FALSE,
              ret |-> [i \in 1..Len(raw) |-> <<xs.list[i], ys.list[i]>>]]

\* --------------------------------------------------------------- state
VARIABLES
    pc,         \* where the program is
    err,        \* the exception that ended it ("" when none)
    args,       \* the configuration (the args dict)
    curve,      \* the values of the curve at the times evaluated so far
    cal,        \* calibrate's threshold, pos and ts
    resolution, \* generate's resolution, as returned by calibrate
    step,       \* generate's step
    dstep,      \* the DistanceStop of the run
    path,       \* the positions yielded by generate (SpecDS: passed to test)
    times,      \* the ts of each position yielded
    tested,     \* what DistanceStop.test returned, one entry per call that returned
    scaled      \* what scale_path returned

vars == <<pc, err, args, curve, cal, resolution, step, dstep, path, times, tested, scaled>>

NoArgs == [mode |-> "", resolution |-> 0, threshold |-> 0, steps |-> 0,
           tsmin |-> 0, tsmax |-> None,
           width |-> 0, height |-> 0, center_x |-> None, center_y |-> None]
NoCurve == <<>>
NoCal == [threshold |-> 0, pos |-> None, ts |-> 0]

\* ------------------------------------------------ SpecDS: the detector
\* A DistanceStop built with any steps and threshold, then fed positions.
InitDS ==
    /\ pc = "test"
    /\ err = ""
    /\ \E steps \in 0..MaxSteps, threshold \in Thresholds :
           dstep = DistanceStop(steps, threshold)
    /\ path = <<>>
    /\ tested = <<>>
    /\ args = NoArgs /\ curve = NoCurve /\ cal = NoCal
    /\ resolution = 0 /\ step = 0 /\ times = <<>> /\ scaled = <<>>

CallTest ==
    /\ pc = "test"
    /\ Len(path) < MaxCalls
    /\ \E pos \in Points :
        LET r == test(dstep, pos)
        IN  /\ dstep' = r.self
            /\ path' = Append(path, pos)
            /\ IF r.raised
               THEN /\ pc' = "raised"
                    /\ err' = "ZeroDivisionError"
                    /\ tested' = tested
               ELSE /\ tested' = Append(tested, r.ret)
                    /\ UNCHANGED <<pc, err>>
    /\ UNCHANGED <<args, curve, cal, resolution, step, times, scaled>>

NextDS == CallTest

SpecDS == InitDS /\ [][NextDS]_vars

\* ------------------------------------------------------------ calibrate
\* pos = self(0); ts = 1
CalibrateBegin ==
    /\ pc = "calibrate"
    /\ \E p \in Points :
        /\ Evaluates(curve, 0, p)
        /\ curve' = Remember(curve, 0, p)
        /\ cal' = [cal EXCEPT !.pos = p, !.ts = 1]
    /\ pc' = "cal_loop"
    /\ UNCHANGED <<err, args, resolution, step, dstep, path, times, tested, scaled>>

\* One turn of `while True`: evaluate the curve at pi/ts, return pi/ts when
\* the distance is below the threshold, else ts += 1.  The counter is capped
\* at MaxTs: no turn is taken from ts = MaxTs when the test fails there.
CalibrateStep ==
    /\ pc = "cal_loop"
    /\ IF KeepSearching(cal.ts)
       THEN \E nextpos \in Points :
            /\ Evaluates(curve, PiOver(cal.ts), nextpos)
            /\ curve' = Remember(curve, PiOver(cal.ts), nextpos)
            /\ IF CloseEnough(cal.pos, nextpos, cal.threshold)
               THEN /\ resolution' = Calibrated(cal.ts)
                    /\ pc' = "calibrated"
                    /\ cal' = cal
               ELSE /\ cal.ts < MaxTs
                    /\ cal' = [cal EXCEPT !.ts = cal.ts + 1]
                    /\ UNCHANGED <<pc, resolution>>
       ELSE \* the loop is left and calibrate returns nothing
            /\ pc' = "calibrated"
            /\ resolution' = 0
            /\ UNCHANGED <<curve, cal>>
    /\ UNCHANGED <<err, args, step, dstep, path, times, tested, scaled>>

\* --------------------------------------- SpecCal: calibrate on its own
\* The times calibrate can evaluate the curve at.
CalTimes == {0} \cup {PiOver(k) : k \in 1..MaxTs}

\* The thresholds calibrate is given: those of Thresholds, a negative one
\* and one above every distance.
CalThresholds == Thresholds \cup {-1, 6}

\* Any curve, any threshold.
InitCal ==
    /\ pc = "calibrate"
    /\ err = ""
    /\ curve \in [CalTimes -> Points]
    /\ \E threshold \in CalThresholds : cal = [NoCal EXCEPT !.threshold = threshold]
    /\ args = NoArgs /\ resolution = 0 /\ step = 0
    /\ dstep = DistanceStop(0, 0) /\ path = <<>> /\ times = <<>>
    /\ tested = <<>> /\ scaled = <<>>

NextCal == CalibrateBegin \/ CalibrateStep

SpecCal == InitCal /\ [][NextCal]_vars

\* The interpreter keeps running the loop.
FairSpecCal == SpecCal /\ WF_vars(NextCal)

\* -------------------------------------------------- Spec: a run of run()
Modes == {"svg", "pygame", "silhouette", "gif"}

\* The configurations drawn.  tsmax, center_x, center_y: None or <<value>>.
Configs ==
    [mode : Modes, resolution : {1, 4}, threshold : {0, 4}, steps : 0..MaxSteps,
     tsmin : {0, PiUnits}, tsmax : {None, <<0>>, <<(2 * PiUnits) \div 3>>},
     width : {5}, height : {3}, center_x : {None}, center_y : {None}]

Init ==
    /\ pc = "run"
    /\ err = ""
    /\ args \in Configs
    /\ curve = NoCurve /\ cal = NoCal
    /\ resolution = 0 /\ step = 0
    /\ dstep = DistanceStop(0, 0) /\ path = <<>> /\ times = <<>>
    /\ tested = <<>> /\ scaled = <<>>

\* run(args): build the renderer of the mode, or raise RuntimeError; then
\* render() -> reset() -> generate().
Run ==
    /\ pc = "run"
    /\ IF KnownMode(args.mode)
       THEN pc' = "generate" /\ err' = err
       ELSE pc' = "error" /\ err' = "RuntimeError"
    /\ UNCHANGED <<args, curve, cal, resolution, step, dstep, path, times, tested, scaled>>

\* generate, up to the call of calibrate
GenerateBegin ==
    /\ pc = "generate"
    /\ cal' = [NoCal EXCEPT !.threshold = CalibrateArg(args)]
    /\ pc' = "calibrate"
    /\ UNCHANGED <<err, args, curve, resolution, step, dstep, path, times, tested, scaled>>

\* generate, from the return of calibrate to the loop
GenerateInit ==
    /\ pc = "calibrated"
    /\ step' = 0
    /\ dstep' = DistanceStop(args.steps, args.threshold)
    /\ pc' = "loop"
    /\ UNCHANGED <<err, args, curve, cal, resolution, path, times, tested, scaled>>

\* One turn of `while running`, up to the yield.  At most MaxPoints points
\* are drawn.
Yield ==
    /\ pc = "loop"
    /\ Len(path) < MaxPoints
    /\ LET ts == Timestamp(resolution, step, args)
       IN  \E pos \in Points :
            /\ Evaluates(curve, ts, pos)
            /\ curve' = Remember(curve, ts, pos)
            /\ path' = Append(path, pos)
            /\ times' = Append(times, ts)
    /\ step' = step + 1
    /\ pc' = "yielded"
    /\ UNCHANGED <<err, args, cal, resolution, dstep, tested, scaled>>

\* The turn resumed after the yield: running is computed and tested.
Resume ==
    /\ pc = "yielded"
    /\ LET ts == times[Len(times)]
           pos == path[Len(path)]
       IN  IF args.tsmax # None
           THEN /\ pc' = IF Before(ts, args.tsmax) THEN "loop" ELSE "generated"
                /\ UNCHANGED <<err, dstep, tested>>
           ELSE LET r == test(dstep, pos)
                IN  /\ dstep' = r.self
                    /\ IF r.raised
                       THEN /\ pc' = "error"
                            /\ err' = "ZeroDivisionError"
                            /\ tested' = tested
                       ELSE /\ pc' = IF NotConverged(r.ret) THEN "loop" ELSE "generated"
                            /\ tested' = Append(tested, r.ret)
                            /\ err' = err
    /\ UNCHANGED <<args, curve, cal, resolution, step, path, times, scaled>>

\* render: path = list(path); path = self.scale_path(path)
ScalePath ==
    /\ pc = "generated"
    /\ LET r == scale_path(path, args)
       IN  IF r.raised
           THEN pc' = "error" /\ err' = "ZeroDivisionError" /\ scaled' = scaled
           ELSE pc' = "done" /\ err' = err /\ scaled' = r.ret
    /\ UNCHANGED <<args, curve, cal, resolution, step, dstep, path, times, tested>>

Next ==
    \/ Run
    \/ GenerateBegin
    \/ CalibrateBegin
    \/ CalibrateStep
    \/ GenerateInit
    \/ Yield
    \/ Resume
    \/ ScalePath

Spec == Init /\ [][Next]_vars

\* ------------------------------------------- SpecScale: scale_path alone
RawPoints == {0, 5, 10} \X {0, 5, 10}

RawPaths == UNION {[1..n -> RawPoints] : n \in 1..MaxPath}

ScaleConfigs ==
    [mode : {"svg"}, resolution : {0}, threshold : {0}, steps : {0},
     tsmin : {0}, tsmax : {None},
     width : {100, 5}, height : {100, 3},
     center_x : {None, <<50>>, <<0>>}, center_y : {None, <<50>>}]

\* Any raw path, any target size and center.
InitScale ==
    /\ pc = "generated"
    /\ err = ""
    /\ args \in ScaleConfigs
    /\ path \in RawPaths
    /\ curve = NoCurve /\ cal = NoCal
    /\ resolution = 0 /\ step = 0
    /\ dstep = DistanceStop(0, 0) /\ times = <<>>
    /\ tested = <<>> /\ scaled = <<>>

NextScale == ScalePath

SpecScale == InitScale /\ [][NextScale]_vars

\* ------------------------------------------------- claims: DistanceStop
\* The distances between the n most recent consecutive positions of p,
\* newest first.
RecentDistances(p, n) ==
    [i \in 1..n |-> euclidean_distance(p[Len(p) - i], p[Len(p) - i + 1])]

\* The most recent call of test returned (it did not raise).
LastCallReturned == Len(path) >= 1 /\ Len(tested) = Len(path)

\* C3: DistanceStop.test returns true exactly when, after the call, at least
\* `steps` distances have been recorded (the call is at least number steps+1)
\* and the arithmetic mean of the retained distances, those between the last
\* `steps` consecutive positions, is strictly below the threshold; otherwise
\* it returns false.
C3_TestTrueIffFullWindowMeanBelow ==
    LastCallReturned =>
        LET k == Len(path)
            n == Min(k - 1, dstep.steps)
            d == RecentDistances(path, n)
        IN  tested[k] <=> (k - 1 >= dstep.steps /\ Sum(d) < dstep.threshold * n)

\* C3 witness: both answers on a full window of two distances: true
\* on the fourth call with mean 7/2 < 4, false on the third with mean 4 = 4.
C3_Witness ==
    /\ LastCallReturned
    /\ dstep.steps = 2 /\ dstep.threshold = 4
    /\ Len(path) = 4
    /\ RecentDistances(path, 2) = <<3, 4>>
    /\ tested[4] /\ ~tested[3]
    /\ RecentDistances(SubSeq(path, 1, 3), 2) = <<4, 4>>

\* C4: the first `steps` calls of test return false whatever the positions,
\* and when the first steps+1 positions are identical and the threshold is
\* positive, call number steps+1 returns true.
C4_FirstStepsFalseThenTrueOnIdentical ==
    /\ \A i \in 1..Min(dstep.steps, Len(tested)) : ~tested[i]
    /\ ( /\ dstep.threshold > 0
         /\ Len(tested) >= dstep.steps + 1
         /\ \A i \in 1..(dstep.steps + 1) : path[i] = path[1] )
       => tested[dstep.steps + 1]

\* C4 witness: steps=2, threshold=1 fed (0,0),(0,0),(0,0) returned
\* false, false, true.
C4_Witness ==
    /\ dstep.steps = 2 /\ dstep.threshold = 1
    /\ path = <<<<0, 0>>, <<0, 0>>, <<0, 0>>>>
    /\ tested = <<FALSE, FALSE, TRUE>>

\* C10: after k >= 1 calls of test with steps >= 1 the distance list holds
\* exactly min(k-1, steps) entries, these are the distances between the most
\* recent consecutive positions, newest first, and last_pos is the position
\* of the most recent call; after the first call the list is empty.
C10_WindowInvariant ==
    (Len(path) >= 1 /\ dstep.steps >= 1) =>
        LET k == Len(path)
            n == Min(k - 1, dstep.steps)
        IN  /\ Len(dstep.values) = n
            /\ Len(dstep.values) <= dstep.steps
            /\ dstep.values = RecentDistances(path, n)
            /\ dstep.last_pos = path[k]
            /\ (k = 1 => dstep.values = <<>>)

\* C10 witness: four calls with steps=2 left the two newest distances, the
\* newest (5) first, the oldest (3) dropped.
C10_Witness ==
    /\ dstep.steps = 2
    /\ path = <<<<0, 0>>, <<3, 0>>, <<3, 4>>, <<0, 0>>>>
    /\ dstep.values = <<5, 4>>
    /\ dstep.last_pos = <<0, 0>>

\* ---------------------------------------------------- claims: calibrate
\* The distance calibrate computes for candidate k, read from the curve.
CandidateDistance(k) == euclidean_distance(curve[0], curve[PiUnits \div k])

\* C5: when calibrate returns, it returns pi/ts for the first ts in 1, 2, ...
\* whose distance between the curve at 0 and at pi/ts is strictly below the
\* threshold: the value is strictly positive, it passes the threshold test,
\* and every earlier candidate pi/k, k < ts, failed it.
C5_CalibrateReturnsFirstPassing ==
    pc = "calibrated" =>
        /\ resolution > 0
        /\ cal.ts >= 1 /\ resolution * cal.ts = PiUnits
        /\ euclidean_distance(curve[0], curve[resolution]) < cal.threshold
        /\ \A k \in 1..(cal.ts - 1) : CandidateDistance(k) >= cal.threshold

\* C5 witness: calibrate returned pi/3 after pi/1 and pi/2 failed.
C5_Witness ==
    /\ pc = "calibrated" /\ cal.ts = 3 /\ resolution * 3 = PiUnits
    /\ CandidateDistance(1) >= cal.threshold
    /\ CandidateDistance(2) >= cal.threshold

\* No candidate up to the cap passes the threshold test.
NeverBelow == \A k \in 1..MaxTs : CandidateDistance(k) >= cal.threshold

\* C6: calibrate has no iteration cap.  When no candidate passes the test (as
\* whenever threshold <= 0) it never returns and ts keeps growing (it reaches
\* the model's cap MaxTs); when some candidate passes, it returns.
C6_CalibrateUncapped ==
    /\ (cal.threshold <= 0 => NeverBelow)
    /\ (NeverBelow => ([](pc # "calibrated") /\ <>(cal.ts = MaxTs)))
    /\ (~NeverBelow => <>(pc = "calibrated"))

\* C6 witness: with threshold 0 the search is still running at ts = MaxTs.
C6_Witness ==
    /\ pc = "cal_loop" /\ cal.threshold = 0 /\ cal.ts = MaxTs
    /\ NeverBelow

\* ----------------------------------------------------- claims: generate
\* The detector after the positions of s have been passed to test, in order.
RECURSIVE Fed(_, _)
Fed(ds, s) == IF s = <<>> THEN ds ELSE Fed(test(ds, Head(s)).self, Tail(s))

Stopped == pc \in {"generated", "done"} \/ (pc = "error" /\ scaled = <<>> /\ path # <<>>
                                             /\ Len(tested) = Len(path))

\* C1: in convergence mode (tsmax is None) generate passes every yielded
\* point to the detector after yielding it (tested[i] is what a detector fed
\* the first i points answers, and the next point is yielded only after the
\* answer), every answer before the last is false, and generate stops exactly
\* on the first true answer: that point is the last of the path.
C1_StopsOnFirstTrue ==
    args.tsmax = None =>
        /\ Len(tested) <= Len(path) /\ Len(path) <= Len(tested) + 1
        /\ pc = "loop" => Len(tested) = Len(path)
        /\ \A i \in 1..Len(tested) :
              tested[i] = test(Fed(DistanceStop(args.steps, args.threshold),
                                   SubSeq(path, 1, i - 1)), path[i]).ret
        /\ \A i \in 1..(Len(tested) - 1) : ~tested[i]
        /\ (tested # <<>> /\ tested[Len(tested)]) =>
              (Stopped /\ Len(path) = Len(tested))
        /\ pc \in {"generated", "done"} =>
              (tested # <<>> /\ tested[Len(tested)] /\ Len(path) = Len(tested))

\* C1 witness: with steps=2 and threshold=4 the third point, closing a window
\* of mean 7/2, stopped the run and is the last of the path.
C1_Witness ==
    /\ args.tsmax = None /\ args.steps = 2 /\ args.threshold = 4
    /\ pc = "done"
    /\ path = <<<<0, 0>>, <<3, 0>>, <<3, 4>>>>
    /\ tested = <<FALSE, FALSE, TRUE>>

\* C2: in bound mode (tsmax set) the n-th point yielded, n = 0, 1, ..., is
\* the curve at t = resolution * n + tsmin; every point but the last has
\* t < tsmax, generate goes on only after a point with t < tsmax, and it
\* stops after the first point with t >= tsmax, which is yielded (so there
\* is at least one point).
C2_BoundModeStopsAtTsmax ==
    args.tsmax # None =>
        /\ Len(times) = Len(path)
        /\ \A n \in 1..Len(path) :
              /\ times[n] = resolution * (n - 1) + args.tsmin
              /\ path[n] = curve[times[n]]
        /\ \A n \in 1..(Len(path) - 1) : times[n] < args.tsmax[1]
        /\ (pc = "loop" /\ path # <<>>) => times[Len(path)] < args.tsmax[1]
        /\ pc \in {"generated", "done"} =>
              (path # <<>> /\ times[Len(path)] >= args.tsmax[1])

\* C2 witness: resolution pi/3, tsmin 0, tsmax 2pi/3: the points at 0, pi/3
\* and 2pi/3 were yielded and the run stopped on the third, where t = tsmax.
C2_Witness ==
    /\ args.tsmax # None /\ args.tsmin = 0
    /\ pc = "done"
    /\ resolution * 3 = PiUnits
    /\ Len(path) = 3
    /\ times[3] = args.tsmax[1]

\* C8: the configured threshold is the threshold of the calibration search
\* as well as of the convergence detector.
C8_CalibrationUsesThreshold ==
    /\ pc \in {"calibrate", "cal_loop", "calibrated"} => cal.threshold = args.threshold
    /\ pc \in {"loop", "yielded"} => dstep.threshold = args.threshold

InvalidConfig(a) == ~KnownMode(a.mode) \/ a.steps <= 0 \/ a.threshold <= 0

\* C9: a run with an invalid configuration (unknown mode, non-positive steps
\* or threshold) fails before calibration and before any point is sampled.
C9_InvalidConfigFailsFast ==
    InvalidConfig(args) =>
        /\ pc \in {"run", "error"}
        /\ curve = NoCurve
        /\ path = <<>>

\* --------------------------------------------------- claims: scale_path
\* The center scale_path uses on an axis of size d.
AxisCenter(d, configured) ==
    IF args.center_x = None \/ args.center_y = None THEN d \div 2 ELSE configured[1]

\* (v - lo) * d / (hi - lo) + (c - d/2) as numerator over the denominator
\* 2 * (hi - lo) > 0.
ScaledNum(v, lo, hi, d, c) == 2 * (v - lo) * d + (2 * c - d) * (hi - lo)

FloorQ(n, d) == n \div d

TruncQ(n, d) == IF n >= 0 THEN n \div d ELSE -((-n) \div d)

Coords(axis) == {path[i][axis] : i \in 1..Len(path)}
Lo(axis) == CHOOSE v \in Coords(axis) : \A w \in Coords(axis) : v <= w
Hi(axis) == CHOOSE v \in Coords(axis) : \A w \in Coords(axis) : v >= w
XC == AxisCenter(args.width, args.center_x)
YC == AxisCenter(args.height, args.center_y)

\* C7 as claimed: scale_path maps the i-th raw point (x, y) to the i-th
\* output point (floor((x - xMin) * xScale + xOffset), floor(likewise for
\* y)), for every target size and center.
C7_ScaleFloors ==
    (pc = "done" /\ path # <<>>) =>
        /\ Len(scaled) = Len(path)
        /\ \A i \in 1..Len(path) :
              /\ scaled[i][1] = FloorQ(ScaledNum(path[i][1], Lo(1), Hi(1), args.width, XC),
                                       2 * (Hi(1) - Lo(1)))
              /\ scaled[i][2] = FloorQ(ScaledNum(path[i][2], Lo(2), Hi(2), args.height, YC),
                                       2 * (Hi(2) - Lo(2)))

\* C7 amended: scale_path maps the i-th raw point to the i-th output point
\* (int((x - xMin) * xScale + xOffset), int(likewise for y)), int rounding
\* toward zero, preserving count and order; the points achieving xMin and
\* xMax map to x = int(xOffset) and x = int(width + xOffset), likewise y.
C7_ScaleTruncates ==
    (pc = "done" /\ path # <<>>) =>
        /\ Len(scaled) = Len(path)
        /\ \A i \in 1..Len(path) :
              /\ scaled[i][1] = TruncQ(ScaledNum(path[i][1], Lo(1), Hi(1), args.width, XC),
                                       2 * (Hi(1) - Lo(1)))
              /\ scaled[i][2] = TruncQ(ScaledNum(path[i][2], Lo(2), Hi(2), args.height, YC),
                                       2 * (Hi(2) - Lo(2)))
              /\ path[i][1] = Lo(1) => scaled[i][1] = TruncQ(2 * XC - args.width, 2)
              /\ path[i][1] = Hi(1) => scaled[i][1] = TruncQ(2 * XC + args.width, 2)
              /\ path[i][2] = Lo(2) => scaled[i][2] = TruncQ(2 * YC - args.height, 2)
              /\ path[i][2] = Hi(2) => scaled[i][2] = TruncQ(2 * YC + args.height, 2)

\* C7 witness: width 5 about center 0 makes xOffset = -5/2; the path
\* (0,0),(10,0),(5,10) was scaled, its xMin point to x = -2 (the floor is -3).
C7_Witness ==
    /\ pc = "done"
    /\ args.width = 5 /\ args.center_x = <<0>> /\ args.center_y = <<50>>
    /\ path = <<<<0, 0>>, <<10, 0>>, <<5, 10>>>>
    /\ scaled[1][1] = -2 /\ scaled[2][1] = 2 /\ scaled[3][1] = 0

====
